---- MODULE Spec2Model ----
(***************************************************************************)
(* Model of static/js/main.js of the Certificate Verification System: the  *)
(* admin idle-session guard (resetTimer / showTimeoutWarning) and the      *)
(* submit-button loading state with its 5 s auto-release (Spec), and the   *)
(* helpers: file upload validation (FileSpec), copyToClipboard (CopySpec), *)
(* utils.debounce (DebSpec) and utils.throttle (ThrSpec).                  *)
(*                                                                         *)
(* The page is one single-threaded event loop.  Time is an absolute clock  *)
(* `now` in milliseconds.  A pending setTimeout is a record in `timers`;   *)
(* it runs once the clock has reached its `due` time and the loop is not   *)
(* blocked by the native confirm() prompt.  Time does not pass beyond a    *)
(* due timer while the loop is free; it does while confirm() is open.      *)
(***************************************************************************)
EXTENDS Integers, Sequences, FiniteSets

\* ---------------------------------------------------------------- bounds
\* calls of copyToClipboard, of a debounced and of a throttled function
MaxCalls == 3
\* files of one selection of a file input
MaxFiles == 2
\* number of button[type="submit"] elements of the one form on the page
NButtons == 2
\* resetTimer calls the model follows, the one at page load included
MaxResets == 3
\* submit events the model follows
MaxSubmits == 3
\* clock advances the model follows
MaxTicks == 2
\* amounts by which the clock advances: half of each setTimeout delay
Delays == {2500, 750000}

\* ------------------------------------------------------ program constants
\* setTimeout(showTimeoutWarning, 25 * 60 * 1000)
IDLE_THRESHOLD == 25 * 60 * 1000
\* setTimeout(() => {...}, 5000) of the submit handler
AUTO_RELEASE == 5000
\* the innerHTML the submit handler writes
BUSY == "<span class=\"spinner-border spinner-border-sm me-2\" role=\"status\" aria-hidden=\"true\"></span>Processing..."

\* events the guard listens to, in registration order
ActivityEventsNoScroll == <<"click", "mousemove", "keypress">>
ActivityEvents == <<"click", "mousemove", "keypress", "scroll">>
\* the qualifying activity events: click, pointer movement, key press, scroll
QualifyingEvents == {"click", "mousemove", "keypress", "scroll"}
\* events the document can receive
DomEvents == {"click", "mousemove", "keypress", "scroll", "keydown"}

Range(s) == {s[i] : i \in DOMAIN s}

\* window.location.pathname as its list of segments: <<"admin","users">> is
\* "/admin/users", <<"admin","">> is "/admin/", <<"admin">> is "/admin"
Paths ==
  { <<"admin", "dashboard">>, <<"admin">>, <<"verify", "result">>,
    <<"user", "admin", "certs">> }

\* pathname.includes('/admin/'): some segment "admin" is followed by a slash,
\* that is, it is not the last segment.  No anchoring at the start.
includesAdmin(p) == \E i \in 1..(Len(p) - 1) : p[i] = "admin"

\* document.querySelectorAll('button[type="submit"]'), in document order
Buttons == 1..NButtons
submitButtonsFirstOnly == {1}
submitButtons == Buttons

\* the markup each button is rendered with
InitialLabel(b) == IF b = 1 THEN "<i class=\"fas fa-save\"></i> Save" ELSE "Verify"

\* the copy button as rendered: its label and the classes the handler swaps
COPY_LABEL == "<i class=\"fas fa-copy\"></i> Copy"
COPY_CLASSES == {"btn", "btn-outline-secondary"}
\* button.innerHTML = '<i class="fas fa-check"></i> Copied!'
COPIED == "<i class=\"fas fa-check\"></i> Copied!"

NoTimer == [id |-> 0, kind |-> "none", due |-> 0, button |-> 0, originalText |-> ""]

VARIABLES
  pathname,        \* window.location.pathname
  now,             \* clock, ms since page load
  ticks,           \* clock advances so far
  timers,          \* pending setTimeout callbacks
  resets,          \* resetTimer calls so far; names the idle timer's handle
  submits,         \* submit events so far; names the auto-release timers
  timeoutWarning,  \* let timeoutWarning (0: undefined)
  confirmOpen,     \* confirm() is showing: the guard is in Warning
  disabled,        \* button.disabled
  innerHTML,       \* button.innerHTML
  warnings,        \* calls of showTimeoutWarning
  confirms,        \* confirm() returned true
  dismissals,      \* confirm() returned false
  keepAlives,      \* fetch('/admin/keep-alive', {method: 'POST'}) calls
  ev,              \* the callback that ran last
  fired,           \* the timer whose callback ran last
  lastActivity,    \* admin page: time of the last qualifying activity event (0: load)
  lastReset,       \* time of the last resetTimer call
  lastSubmit,      \* time of the last submit event (-1: none)
  idleExceeded,    \* some moment was IDLE_THRESHOLD or more after lastActivity
  burst,           \* resetTimer calls by activity events since the clock moved
  kaPending,       \* keep-alive requests sent and not yet settled
  kaFailed,        \* keep-alive requests settled with an error
  inflight,        \* 1: a form submission is under way (a later one replaces it)
  wasValidated,    \* the form carries the class was-validated
  prevented,       \* the last submit event had preventDefault() called
  \* ---- input[type="file"] change handler
  files,           \* this.files, each file its size and type
  selection,       \* this.value as the files it stands for (<<>>: cleared)
  alerts,          \* alert() calls: the check that failed and the file's index
  examined,        \* files the loop has looked at
  changed,         \* the change handler has run
  \* ---- copyToClipboard(text, button)
  copyHTML,        \* button.innerHTML
  copyClasses,     \* button.classList
  copyCalls,       \* calls so far
  copyWrites,      \* navigator.clipboard.writeText promises not yet settled
  copyRestores,    \* pending 2 s restore timers, oldest first: due, originalHTML
  copyAlerts,      \* alert('Failed to copy to clipboard') calls
  \* ---- utils.debounce(func, wait)
  debTimers,       \* pending setTimeout(later, wait) callbacks
  debTimeout,      \* let timeout (0: undefined)
  debCalls,        \* calls of executedFunction, the last one's time and args
  debInvoked,      \* invocations of func
  debBursts,       \* calls that found no timer pending
  \* ---- utils.throttle(func, limit)
  inThrottle,      \* let inThrottle
  thrTimers,       \* pending setTimeout(() => inThrottle = false, limit)
  thrCalls,        \* calls of the returned function: time and args
  thrInvoked,      \* invocations of func
  thrDropped       \* calls that did not invoke func

vars == <<pathname, now, ticks, timers, resets, submits, timeoutWarning, confirmOpen,
          disabled, innerHTML, warnings, confirms, dismissals, keepAlives,
          ev, fired, lastActivity, lastReset, lastSubmit, idleExceeded, burst,
          kaPending, kaFailed, inflight, wasValidated, prevented,
          files, selection, alerts, examined, changed,
          copyHTML, copyClasses, copyCalls, copyWrites, copyRestores, copyAlerts,
          debTimers, debTimeout, debCalls, debInvoked, debBursts,
          inThrottle, thrTimers, thrCalls, thrInvoked, thrDropped>>

\* the state of one helper each
fileVars == <<files, selection, alerts, examined, changed>>
copyVars == <<copyHTML, copyClasses, copyCalls, copyWrites, copyRestores, copyAlerts>>
debVars == <<debTimers, debTimeout, debCalls, debInvoked, debBursts>>
thrVars == <<inThrottle, thrTimers, thrCalls, thrInvoked, thrDropped>>
\* the state of the session guard and the submission lock, the clock excepted
pageVars == <<pathname, timers, resets, submits, timeoutWarning, confirmOpen,
              disabled, innerHTML, warnings, confirms, dismissals, keepAlives,
              ev, fired, lastActivity, lastReset, lastSubmit, idleExceeded,
              burst, kaPending, kaFailed, inflight, wasValidated, prevented>>

IdleTimers == {t \in timers : t.kind = "idle"}
ReleaseTimers(b) == {t \in timers : t.kind = "release" /\ t.button = b}

\* clearTimeout(handle)
clearTimeout(ts, handle) == {t \in ts : ~(t.kind = "idle" /\ t.id = handle)}

\* resetTimer(): clearTimeout(timeoutWarning); timeoutWarning = setTimeout(...)
resetTimerNoClear(ts, handle, id, t) ==
  ts \cup {[id |-> id, kind |-> "idle", due |-> t + IDLE_THRESHOLD,
            button |-> 0, originalText |-> ""]}
resetTimer(ts, handle, id, t) ==
  clearTimeout(ts, handle) \cup
    {[id |-> id, kind |-> "idle", due |-> t + IDLE_THRESHOLD,
      button |-> 0, originalText |-> ""]}

\* auto-release timer u was set before auto-release timer t
setBefore(u, t) == u.id < t.id \/ (u.id = t.id /\ u.button < t.button)

\* a setTimeout callback runs once: the timer leaves the pending set
expireRepeating(ts, t) == ts
expire(ts, t) == ts \ {t}

\* confirm() is synchronous: while it shows, no other callback of the page runs
blockedNever == FALSE
blocked == confirmOpen

\* outcomes of the keep-alive request: success, non-success status (the
\* promise resolves) and network error (the promise rejects)
Outcomes == {"ok", "status-error", "network-error"}

\* fetch calls made when a keep-alive request settles: the promise of
\* fetch() gets no then or catch, so none
fetchRetriesOnFailure(outcome) == IF outcome = "ok" THEN 0 ELSE 1
fetchRetries(outcome) == 0

\* event.stopPropagation() of the validation listener does not stop the
\* listeners registered later on the same form
laterListenersStoppedWhenInvalid(valid) == ~valid
laterListenersStopped(valid) == FALSE

\* the auto-release callback tests button.disabled and nothing else
shouldReleaseWhenAnswered(isDisabled, outstanding) == isDisabled /\ outstanding = 0
shouldRelease(isDisabled, outstanding) == isDisabled

\* fetch calls of showTimeoutWarning for one answer of confirm()
fetchCallsUnconditional(answer) == 1
fetchCalls(answer) == IF answer THEN 1 ELSE 0

\* ------------------------------------------------------------------ Init
\* the helpers before their first use
FileIdle ==
  files = <<>> /\ selection = <<>> /\ alerts = <<>> /\ examined = 0 /\ changed = FALSE
CopyIdle ==
  /\ copyHTML = COPY_LABEL /\ copyClasses = COPY_CLASSES /\ copyCalls = 0
  /\ copyWrites = 0 /\ copyRestores = <<>> /\ copyAlerts = 0
DebIdle ==
  /\ debTimers = {} /\ debTimeout = 0 /\ debCalls = <<>> /\ debInvoked = <<>>
  /\ debBursts = 0
ThrIdle ==
  /\ inThrottle = FALSE /\ thrTimers = {} /\ thrCalls = <<>> /\ thrInvoked = <<>>
  /\ thrDropped = 0

\* the state when the DOMContentLoaded handler has returned on the page at p
PageLoaded(p) ==
  /\ pathname = p
  /\ now = 0
  /\ ticks = 0
  /\ timers = IF includesAdmin(pathname) THEN resetTimer({}, 0, 1, 0) ELSE {}
  /\ resets = IF includesAdmin(pathname) THEN 1 ELSE 0
  /\ submits = 0
  /\ timeoutWarning = IF includesAdmin(pathname) THEN 1 ELSE 0
  /\ confirmOpen = FALSE
  /\ disabled = [b \in Buttons |-> FALSE]
  /\ innerHTML = [b \in Buttons |-> InitialLabel(b)]
  /\ warnings = 0
  /\ confirms = 0
  /\ dismissals = 0
  /\ keepAlives = 0
  /\ ev = "load"
  /\ fired = NoTimer
  /\ lastActivity = 0
  /\ lastReset = 0
  /\ lastSubmit = -1
  /\ idleExceeded = FALSE
  /\ burst = 0
  /\ kaPending = 0
  /\ kaFailed = 0
  /\ inflight = 0
  /\ wasValidated = FALSE
  /\ prevented = FALSE

\* a page outside the admin area, where only the helpers act
PlainPage == PageLoaded(<<"verify", "result">>)

Init ==
  /\ \E p \in Paths : PageLoaded(p)
  /\ FileIdle /\ CopyIdle /\ DebIdle /\ ThrIdle

\* --------------------------------------------------------------- actions
\* a DOM event on the document; the guard's listener, when registered for
\* this kind of event on this page, is resetTimer
DomEvent(k) ==
  /\ ~blocked
  /\ IF includesAdmin(pathname) /\ k \in Range(ActivityEvents)
       THEN /\ resets < MaxResets
            /\ timers' = resetTimer(timers, timeoutWarning, resets + 1, now)
            /\ timeoutWarning' = resets + 1
            /\ resets' = resets + 1
            /\ lastReset' = now
            /\ burst' = IF burst < 2 THEN burst + 1 ELSE 2
       ELSE UNCHANGED <<timers, timeoutWarning, resets, lastReset, burst>>
  /\ lastActivity' = IF includesAdmin(pathname) /\ k \in QualifyingEvents
                       THEN now ELSE lastActivity
  /\ ev' = k
  /\ UNCHANGED <<pathname, now, ticks, submits, confirmOpen, disabled,
                 innerHTML, warnings, confirms, dismissals, keepAlives, fired,
                 lastSubmit, idleExceeded, kaPending, kaFailed, inflight,
                 wasValidated, prevented>>
  /\ UNCHANGED <<fileVars, copyVars, debVars, thrVars>>

\* the idle timer's callback: showTimeoutWarning() up to the blocking confirm()
showTimeoutWarning(t) ==
  /\ ~blocked
  /\ t \in timers /\ t.kind = "idle" /\ t.due <= now
  /\ timers' = expire(timers, t)
  /\ confirmOpen' = TRUE
  /\ warnings' = warnings + 1
  /\ fired' = t
  /\ ev' = "warning"
  /\ UNCHANGED <<pathname, now, ticks, resets, submits, timeoutWarning,
                 disabled, innerHTML, confirms, dismissals, keepAlives, lastActivity,
                 lastReset, lastSubmit, idleExceeded, burst, kaPending,
                 kaFailed, inflight, wasValidated, prevented>>
  /\ UNCHANGED <<fileVars, copyVars, debVars, thrVars>>

\* confirm() returns: the rest of showTimeoutWarning()
confirmReturns(answer) ==
  /\ confirmOpen
  /\ confirmOpen' = FALSE
  /\ IF answer
       THEN /\ resets < MaxResets
            /\ timers' = resetTimer(timers, timeoutWarning, resets + 1, now)
            /\ timeoutWarning' = resets + 1
            /\ resets' = resets + 1
            /\ lastReset' = now
            /\ confirms' = confirms + 1
            /\ UNCHANGED dismissals
       ELSE /\ dismissals' = dismissals + 1
            /\ UNCHANGED <<timers, timeoutWarning, resets, lastReset, confirms>>
  /\ keepAlives' = keepAlives + fetchCalls(answer)
  /\ kaPending' = kaPending + fetchCalls(answer)
  /\ ev' = IF answer THEN "confirm" ELSE "dismiss"
  /\ UNCHANGED <<pathname, now, ticks, submits, disabled, innerHTML, warnings,
                 fired, lastActivity, lastSubmit, idleExceeded, burst,
                 kaFailed, inflight, wasValidated, prevented>>
  /\ UNCHANGED <<fileVars, copyVars, debVars, thrVars>>

\* the keep-alive request settles; nothing of the page waits for it
KeepAliveSettles(outcome) ==
  /\ kaPending > 0
  /\ kaPending' = kaPending - 1 + fetchRetries(outcome)
  /\ kaFailed' = IF outcome = "ok" THEN kaFailed ELSE kaFailed + 1
  /\ keepAlives' = keepAlives + fetchRetries(outcome)
  /\ UNCHANGED <<pathname, now, ticks, timers, resets, submits, timeoutWarning,
                 confirmOpen, disabled, innerHTML, warnings, confirms,
                 dismissals, ev, fired, lastActivity, lastReset, lastSubmit,
                 idleExceeded, burst, inflight, wasValidated, prevented>>
  /\ UNCHANGED <<fileVars, copyVars, debVars, thrVars>>

\* a submit event on the form (class needs-validation), valid being the
\* result of form.checkValidity().  The validation listener runs first; then
\* one listener per button of submitButtons, each with its own setTimeout
\* (never cleared, so named by the submit's number).  The submission itself
\* starts when the listeners have returned, unless the default was prevented.
Submit(valid) ==
  /\ ~blocked
  /\ submits < MaxSubmits
  /\ prevented' = ~valid
  /\ wasValidated' = TRUE
  /\ LET locked == IF laterListenersStopped(valid) THEN {} ELSE submitButtons IN
       /\ disabled' = [b \in Buttons |-> IF b \in locked THEN TRUE ELSE disabled[b]]
       /\ innerHTML' = [b \in Buttons |-> IF b \in locked THEN BUSY ELSE innerHTML[b]]
       /\ timers' = timers \cup
            {[id |-> submits + 1, kind |-> "release", due |-> now + AUTO_RELEASE,
              button |-> b, originalText |-> innerHTML[b]] : b \in locked}
  /\ inflight' = IF valid THEN 1 ELSE inflight
  /\ submits' = submits + 1
  /\ lastSubmit' = now
  /\ ev' = "submit"
  /\ fired' = NoTimer
  /\ UNCHANGED <<pathname, now, ticks, resets, timeoutWarning, confirmOpen,
                 warnings, confirms, dismissals, keepAlives, lastActivity,
                 lastReset, idleExceeded, burst, kaPending, kaFailed>>
  /\ UNCHANGED <<fileVars, copyVars, debVars, thrVars>>

\* the auto-release callback of one submit listener; timers of equal delay
\* run in the order of their setTimeout calls
AutoRelease(t) ==
  /\ ~blocked
  /\ t \in timers /\ t.kind = "release" /\ t.due <= now
  /\ \A u \in timers : u.kind = "release" => ~setBefore(u, t)
  /\ timers' = expire(timers, t)
  /\ IF shouldRelease(disabled[t.button], inflight)
       THEN /\ disabled' = [disabled EXCEPT ![t.button] = FALSE]
            /\ innerHTML' = [innerHTML EXCEPT ![t.button] = t.originalText]
       ELSE UNCHANGED <<disabled, innerHTML>>
  /\ fired' = t
  /\ ev' = "release"
  /\ UNCHANGED <<pathname, now, ticks, resets, submits, timeoutWarning,
                 confirmOpen, warnings, confirms, dismissals, keepAlives, lastActivity,
                 lastReset, lastSubmit, idleExceeded, burst, kaPending,
                 kaFailed, inflight, wasValidated, prevented>>
  /\ UNCHANGED <<fileVars, copyVars, debVars, thrVars>>

\* the clock advances by d; a due timer runs before time passes, unless the
\* loop is blocked in confirm()
Tick(d) ==
  /\ ticks < MaxTicks
  /\ d > 0
  /\ blocked \/ \A t \in timers : t.due >= now + d
  /\ now' = now + d
  /\ ticks' = ticks + 1
  /\ idleExceeded' = (idleExceeded \/ now + d - lastActivity >= IDLE_THRESHOLD)
  /\ burst' = 0
  /\ ev' = "tick"
  /\ UNCHANGED <<pathname, timers, resets, submits, timeoutWarning, confirmOpen,
                 disabled, innerHTML, warnings, confirms, dismissals,
                 keepAlives, fired, lastActivity, lastReset, lastSubmit,
                 kaPending, kaFailed, inflight, wasValidated, prevented>>
  /\ UNCHANGED <<fileVars, copyVars, debVars, thrVars>>

Next ==
  \/ \E k \in DomEvents : DomEvent(k)
  \/ \E t \in timers : showTimeoutWarning(t)
  \/ \E answer \in BOOLEAN : confirmReturns(answer)
  \/ \E outcome \in Outcomes : KeepAliveSettles(outcome)
  \/ \E valid \in BOOLEAN : Submit(valid)
  \/ \E t \in timers : AutoRelease(t)
  \/ \E d \in Delays : Tick(d)

Spec == Init /\ [][Next]_vars

\* ---------------------------------------------------------------- claims
\* the one idle timer a resetTimer call at the current time leaves pending
FreshIdleTimer ==
  [id |-> timeoutWarning, kind |-> "idle", due |-> now + IDLE_THRESHOLD,
   button |-> 0, originalText |-> ""]

\* the pathname starts with "/admin/"
UnderAdminPrefix(p) == Len(p) >= 2 /\ p[1] = "admin"

\* C1: on an admin page, as long as no moment has been the idle threshold or
\* more after the last qualifying activity event (or the page load),
\* showTimeoutWarning has never been invoked.
C1_NoWarningWhileActive ==
  (includesAdmin(pathname) /\ ~idleExceeded) => (warnings = 0 /\ ~confirmOpen)

\* activity at half the threshold kept the guard quiet past the first deadline
C1_Witness ==
  /\ includesAdmin(pathname) /\ ~idleExceeded
  /\ lastActivity > 0 /\ now >= IDLE_THRESHOLD /\ warnings = 0

\* C2: the warning is shown by the latest timer only, the one resetTimer armed
\* last and exactly the idle threshold after that call; once it is shown no
\* idle timer is left pending to show a second one, and an armed timer is
\* never left pending beyond its deadline.
C2_WarningOnceFromLatestTimer ==
  /\ ev = "warning" =>
       /\ confirmOpen
       /\ fired.id = timeoutWarning
       /\ fired.due = lastReset + IDLE_THRESHOLD
       /\ now = fired.due
       /\ IdleTimers = {}
  /\ warnings <= resets
  /\ \A t \in IdleTimers : now <= t.due

\* the warning of a timer armed by an activity event, after an earlier timer
C2_Witness == ev = "warning" /\ fired.id >= 2 /\ warnings = 1

\* C3: a confirmation leaves the guard Armed with a fresh timer, and the
\* keep-alive requests issued equal the confirmed warnings.
C3_KeepAlivePerConfirmation ==
  /\ keepAlives = confirms
  /\ ev = "confirm" => (~confirmOpen /\ IdleTimers = {FreshIdleTimer})

\* a confirmation on a page that also saw an activity event
C3_Witness == ev = "confirm" /\ keepAlives = 1 /\ resets = 3

\* C4: at most one idle timer is pending, it is the one timeoutWarning names,
\* and two activity resets in immediate succession leave exactly one.
C4_AtMostOneIdleTimer ==
  /\ Cardinality(IdleTimers) <= 1
  /\ \A t \in IdleTimers : t.id = timeoutWarning
  /\ burst >= 2 => Cardinality(IdleTimers) = 1

\* two activity events with no time between them
C4_Witness == burst = 2 /\ Cardinality(IdleTimers) = 1 /\ ev = "mousemove"

\* C5: when the submit handlers have returned, every button[type="submit"]
\* of the form is disabled and shows the busy indicator.
C5_SubmitLocksEveryButton ==
  ev = "submit" => \A b \in Buttons : disabled[b] /\ innerHTML[b] = BUSY

\* a first submit event
C5_Witness == ev = "submit" /\ submits = 1 /\ \A b \in Buttons : disabled[b]

\* C6: whenever a control is unlocked its label is the one it was rendered
\* with.
C6_LabelRestoredWhenUnlocked ==
  \A b \in Buttons : ~disabled[b] => innerHTML[b] = InitialLabel(b)

\* C7: when an auto-release callback has run, its control is enabled and
\* shows its original label.
C7_AutoReleaseRestores ==
  ev = "release" =>
    (~disabled[fired.button] /\ innerHTML[fired.button] = InitialLabel(fired.button))

\* C8: right after a qualifying activity event on an admin page exactly one
\* idle timer is pending, due the idle threshold after the event.
C8_ActivityRearms ==
  (includesAdmin(pathname) /\ ev \in QualifyingEvents) =>
     (IdleTimers = {FreshIdleTimer} /\ lastReset = now)

\* a scroll event after a dismissed warning
C8_Witness ==
  ev = "scroll" /\ dismissals = 1 /\ IdleTimers = {FreshIdleTimer}

\* C9: a page under the admin prefix starts Armed with one timer; on any
\* other path no idle timer is scheduled, no warning shown and no keep-alive
\* sent.
C9_GuardOnlyUnderAdminPrefix ==
  /\ (UnderAdminPrefix(pathname) /\ ev = "load") => Cardinality(IdleTimers) = 1
  /\ ~UnderAdminPrefix(pathname) =>
       (IdleTimers = {} /\ resets = 0 /\ warnings = 0 /\ keepAlives = 0)

\* C10: at most one auto-release timer is pending per submit control.
C10_OneAutoReleasePerControl ==
  \A b \in Buttons : Cardinality(ReleaseTimers(b)) <= 1

\* what the guard consists of: its timers, its handle, its prompt and its counts
guard == <<IdleTimers, timeoutWarning, confirmOpen, warnings, confirms,
           dismissals, resets, lastReset>>

\* C11: when a keep-alive request settles, with whatever outcome, the guard
\* and its pending timer stay as they are, no further request is sent and
\* no prompt is shown; the timer armed by the confirmation is pending while
\* the request is outstanding as well as after it has failed.
C11_KeepAliveOutcomeIgnored ==
  /\ [][kaPending' < kaPending =>
          (UNCHANGED guard /\ keepAlives' = keepAlives /\ UNCHANGED ev)]_vars
  /\ [](ev = "confirm" => IdleTimers = {FreshIdleTimer})
  /\ [](kaPending + kaFailed <= confirms)

\* the request of a confirmation has failed and the rearmed timer is pending
C11_Witness ==
  ev = "confirm" /\ kaFailed = 1 /\ kaPending = 0 /\ IdleTimers = {FreshIdleTimer}

\* C12: a dismissal schedules no timer and sends no keep-alive; from then on
\* no idle timer is pending, and so no warning shown, until a qualifying
\* activity event arms one.
C12_DismissalDoesNothing ==
  /\ [][(confirmOpen /\ ev' = "dismiss") =>
          (timers' = timers /\ IdleTimers' = {} /\ keepAlives' = keepAlives
           /\ kaPending' = kaPending)]_vars
  /\ [][(~confirmOpen /\ IdleTimers = {}) =>
          (warnings' = warnings /\ (IdleTimers' # {} => ev' \in QualifyingEvents))]_vars

\* an event that does not qualify follows a dismissal: still no timer pending
C12_Witness ==
  dismissals = 1 /\ ev = "keydown" /\ IdleTimers = {} /\ ~confirmOpen /\ keepAlives = 0

\* C13: while the prompt shows, no idle timer is pending and no reset takes
\* effect; the step that arms a timer again is the confirmation.
C13_WarningPausesGuard ==
  /\ [](confirmOpen => IdleTimers = {})
  /\ [][confirmOpen =>
          ((resets' # resets \/ IdleTimers' # {}) => ev' = "confirm")]_vars
  /\ [][confirmOpen => ev' \notin DomEvents]_vars

\* the prompt shows while a button is locked and its auto-release pending:
\* no idle timer is pending
C13_Witness ==
  /\ confirmOpen /\ IdleTimers = {} /\ ev = "warning"
  /\ \E b \in Buttons : disabled[b] /\ ReleaseTimers(b) # {}

\* C14: an auto-release callback runs once its 5 s have passed and leaves its
\* control enabled, whether or not a submission is outstanding.
C14_AutoReleaseBlind ==
  ev = "release" => (~disabled[fired.button] /\ now >= fired.due)

\* the control is enabled again while the submission is still outstanding
C14_Witness ==
  ev = "release" /\ inflight = 1 /\ submits = 1 /\ \A b \in Buttons : ~disabled[b]

\* C15: a submit event whose validity check fails is canceled and starts no
\* submission, the form is marked was-validated, and the buttons are locked
\* all the same, each with an auto-release due in 5 s; a locked button is
\* unlocked by an auto-release callback only.
C15_InvalidSubmitStillLocks ==
  /\ [](ev = "submit" /\ prevented =>
          /\ wasValidated
          /\ \A b \in Buttons :
               /\ disabled[b] /\ innerHTML[b] = BUSY
               /\ \E t \in ReleaseTimers(b) : t.due = now + AUTO_RELEASE)
  /\ [][(ev' = "submit" /\ submits' # submits /\ prevented') =>
          inflight' = inflight]_vars
  /\ [][\A b \in Buttons : (disabled[b] /\ ~disabled'[b]) =>
          (ev' = "release" /\ fired'.button = b)]_vars

\* the button of a canceled submit has been released by its auto-release
C15_Witness ==
  /\ ev = "release" /\ prevented /\ inflight = 0 /\ submits = 1
  /\ now = AUTO_RELEASE /\ ~disabled[1]

\* ------------------------------------------------- file upload validation
\* const maxSize = 16 * 1024 * 1024
maxSize == 16 * 1024 * 1024
\* const allowedTypes
allowedTypes == <<"application/pdf", "image/jpeg", "image/jpg", "image/png">>

\* the sizes and types a selected file is drawn from
FileSizes == {1024, maxSize, maxSize + 1}
FileTypes == Range(allowedTypes) \cup {"image/gif", ""}
File == [size : FileSizes, type : FileTypes]
FileLists == UNION {[1..n -> File] : n \in 0..MaxFiles}

\* file.size > maxSize
tooLargeFromLimit(size) == size >= maxSize
tooLarge(size) == size > maxSize

\* the for loop of the change handler from file i on: what it alerts, whether
\* it clears this.value, and how many files it has looked at when it returns
RECURSIVE checkFiles(_, _)
checkFiles(fs, i) ==
  IF i > Len(fs)
    THEN [alerts |-> <<>>, cleared |-> FALSE, examined |-> Len(fs)]
    ELSE IF tooLarge(fs[i].size)
      THEN [alerts |-> <<[check |-> "size", file |-> i]>>, cleared |-> TRUE,
            examined |-> i]
      ELSE IF fs[i].type \notin Range(allowedTypes)
        THEN [alerts |-> <<[check |-> "type", file |-> i]>>, cleared |-> TRUE,
              examined |-> i]
        ELSE checkFiles(fs, i + 1)

\* the user has picked some files: the state before the change event
FileInit ==
  /\ PlainPage /\ CopyIdle /\ DebIdle /\ ThrIdle
  /\ files \in FileLists
  /\ selection = files
  /\ alerts = <<>>
  /\ examined = 0
  /\ changed = FALSE

\* the change event of the file input
FileChange ==
  /\ ~changed
  /\ LET r == checkFiles(files, 1) IN
       /\ alerts' = alerts \o r.alerts
       /\ selection' = IF r.cleared THEN <<>> ELSE selection
       /\ examined' = r.examined
  /\ changed' = TRUE
  /\ UNCHANGED <<files, now, ticks, pageVars, copyVars, debVars, thrVars>>

FileNext == FileChange

FileSpec == FileInit /\ [][FileNext]_vars

\* a file the handler must reject, and the check it fails first
Offending(f) ==
  \/ f.size > 16777216
  \/ f.type \notin {"application/pdf", "image/jpeg", "image/jpg", "image/png"}
FailedCheck(f) == IF f.size > 16777216 THEN "size" ELSE "type"
FirstOffending(fs) ==
  CHOOSE i \in DOMAIN fs : Offending(fs[i]) /\ \A j \in 1..(i - 1) : ~Offending(fs[j])

\* C19: after the change event the selection is kept exactly when no file is
\* over 16 MB (16 MB itself accepted) or of another type than the four
\* allowed; otherwise it is cleared and exactly one alert is shown, for the
\* first offending file and the check it fails first (size before type),
\* and no later file has been looked at.
C19_FileCheck ==
  changed =>
    IF \A i \in DOMAIN files : ~Offending(files[i])
      THEN selection = files /\ alerts = <<>> /\ examined = Len(files)
      ELSE /\ selection = <<>>
           /\ alerts = <<[check |-> FailedCheck(files[FirstOffending(files)]),
                          file |-> FirstOffending(files)]>>
           /\ examined = FirstOffending(files)

\* a file of exactly 16 MB passes, the next one is too large and of a wrong
\* type: the alert is the one for its size
C19_Witness ==
  /\ changed /\ Len(files) = 2
  /\ files[1].size = 16777216 /\ files[1].type = "image/jpg"
  /\ files[2].size = 16777217 /\ files[2].type = "image/gif"
  /\ alerts = <<[check |-> "size", file |-> 2]>> /\ selection = <<>>

\* ------------------------------------------------------- copyToClipboard
\* the then callback: show 'Copied!' in the success style
copiedClasses(cs) == (cs \cup {"btn-success"}) \ {"btn-outline-secondary"}
\* the restore timer's callback: back to the outline style
restoredClasses(cs) == (cs \ {"btn-success"}) \cup {"btn-outline-secondary"}

\* setTimeout(function() {...}, 2000)
COPY_RESTORE == 2000
\* amount by which the clock advances: half the restore delay
CopyDelays == {1000}

CopyInit == PlainPage /\ FileIdle /\ DebIdle /\ ThrIdle /\ CopyIdle

\* copyToClipboard(text, button): starts navigator.clipboard.writeText(text)
CopyCall ==
  /\ copyCalls < MaxCalls
  /\ copyCalls' = copyCalls + 1
  /\ copyWrites' = copyWrites + 1
  /\ UNCHANGED <<copyHTML, copyClasses, copyRestores, copyAlerts>>
  /\ UNCHANGED <<now, ticks, pageVars, fileVars, debVars, thrVars>>

\* the oldest writeText promise settles: the then callback snapshots the
\* label, writes 'Copied!' and arms the 2 s restore; the catch callback alerts
CopyWriteSettles(ok) ==
  /\ copyWrites > 0
  /\ copyWrites' = copyWrites - 1
  /\ IF ok
       THEN /\ copyRestores' = Append(copyRestores,
                   [due |-> now + COPY_RESTORE, originalHTML |-> copyHTML])
            /\ copyHTML' = COPIED
            /\ copyClasses' = copiedClasses(copyClasses)
            /\ UNCHANGED copyAlerts
       ELSE /\ copyAlerts' = copyAlerts + 1
            /\ UNCHANGED <<copyHTML, copyClasses, copyRestores>>
  /\ UNCHANGED copyCalls
  /\ UNCHANGED <<now, ticks, pageVars, fileVars, debVars, thrVars>>

\* the oldest restore timer fires (equal delays: in the order they were set)
CopyRestore ==
  /\ copyRestores # <<>>
  /\ Head(copyRestores).due <= now
  /\ copyHTML' = Head(copyRestores).originalHTML
  /\ copyClasses' = restoredClasses(copyClasses)
  /\ copyRestores' = Tail(copyRestores)
  /\ UNCHANGED <<copyCalls, copyWrites, copyAlerts>>
  /\ UNCHANGED <<now, ticks, pageVars, fileVars, debVars, thrVars>>

\* the clock advances by d, not beyond a due restore timer
CopyTick(d) ==
  /\ ticks < MaxTicks
  /\ \A i \in DOMAIN copyRestores : copyRestores[i].due >= now + d
  /\ now' = now + d
  /\ ticks' = ticks + 1
  /\ UNCHANGED <<pageVars, fileVars, copyVars, debVars, thrVars>>

CopyNext ==
  \/ CopyCall
  \/ \E ok \in BOOLEAN : CopyWriteSettles(ok)
  \/ CopyRestore
  \/ \E d \in CopyDelays : CopyTick(d)

CopySpec == CopyInit /\ [][CopyNext]_vars

\* C16: after successful calls, also calls less than 2 s apart, once every
\* restore timer has fired the button shows the label and the classes it had before the first call.
C16_CopyButtonRestored ==
  (copyCalls > 0 /\ copyAlerts = 0 /\ copyWrites = 0 /\ copyRestores = <<>>) =>
     (copyHTML = COPY_LABEL /\ copyClasses = COPY_CLASSES)

\* -------------------------------------------------------- utils.debounce
\* the wait the debounced function was made with, and the arguments of a call
WAIT == 300
CallArgs == {"a", "b"}
\* amounts by which the clock advances: half the wait, or up to a due timer
DebDelays == {WAIT \div 2}

\* clearTimeout(timeout)
debClear(ts, handle) == {t \in ts : t.id # handle}

\* executedFunction(...args): clearTimeout(timeout); timeout = setTimeout(later, wait)
debRearmNoClear(ts, handle, id, t, args) ==
  ts \cup {[id |-> id, due |-> t + WAIT, args |-> args]}
debRearm(ts, handle, id, t, args) ==
  debClear(ts, handle) \cup {[id |-> id, due |-> t + WAIT, args |-> args]}

DebInit == PlainPage /\ FileIdle /\ CopyIdle /\ ThrIdle /\ DebIdle

\* a call of the debounced function
DebCall(args) ==
  /\ Len(debCalls) < MaxCalls
  /\ debTimers' = debRearm(debTimers, debTimeout, Len(debCalls) + 1, now, args)
  /\ debTimeout' = Len(debCalls) + 1
  /\ debCalls' = Append(debCalls, [at |-> now, args |-> args])
  /\ debBursts' = IF debTimers = {} THEN debBursts + 1 ELSE debBursts
  /\ UNCHANGED debInvoked
  /\ UNCHANGED <<now, ticks, pageVars, fileVars, copyVars, thrVars>>

\* the timer's callback later(): clearTimeout(timeout); func(...args), with
\* the args of the call that set this timer
DebLater(t) ==
  /\ t \in debTimers /\ t.due <= now
  /\ debTimers' = debClear(debTimers \ {t}, debTimeout)
  /\ debInvoked' = Append(debInvoked, [at |-> now, args |-> t.args, calls |-> Len(debCalls)])
  /\ UNCHANGED <<debTimeout, debCalls, debBursts>>
  /\ UNCHANGED <<now, ticks, pageVars, fileVars, copyVars, thrVars>>

\* the clock advances by d, not beyond a due timer
DebTick(d) ==
  /\ ticks < MaxTicks
  /\ d > 0
  /\ \A t \in debTimers : t.due >= now + d
  /\ now' = now + d
  /\ ticks' = ticks + 1
  /\ UNCHANGED <<pageVars, fileVars, copyVars, debVars, thrVars>>

DebNext ==
  \/ \E args \in CallArgs : DebCall(args)
  \/ \E t \in debTimers : DebLater(t)
  \/ \E d \in DebDelays \cup {t.due - now : t \in debTimers} : DebTick(d)

DebSpec == DebInit /\ [][DebNext]_vars

\* C17: at most one timer is pending; a call never invokes func itself; func
\* has been invoked once for every burst that has ended, no sooner than the
\* wait after the last call made till then, and with that call's arguments.
C17_Debounce ==
  /\ [](Cardinality(debTimers) <= 1)
  /\ [][debCalls' # debCalls => debInvoked' = debInvoked]_vars
  /\ [](Len(debInvoked) + Cardinality(debTimers) = debBursts)
  /\ [](\A i \in DOMAIN debInvoked :
          /\ debInvoked[i].calls >= 1
          /\ debInvoked[i].args = debCalls[debInvoked[i].calls].args
          /\ debInvoked[i].at >= debCalls[debInvoked[i].calls].at + 300)

\* a burst of two calls half a wait apart, answered once with the second
\* call's arguments
C17_Witness ==
  /\ Len(debCalls) = 2 /\ debCalls[1].args = "a" /\ debCalls[2].args = "b"
  /\ debCalls[2].at = debCalls[1].at + 150
  /\ debTimers = {} /\ Len(debInvoked) = 1 /\ debInvoked[1].args = "b"

\* -------------------------------------------------------- utils.throttle
\* the limit the throttled function was made with
LIMIT == 200
\* amounts by which the clock advances: half the limit, or up to a due timer
ThrDelays == {LIMIT \div 2}

\* if (!inThrottle)
thrOpenAlways(flag) == TRUE
thrOpen(flag) == ~flag

ThrInit == PlainPage /\ FileIdle /\ CopyIdle /\ DebIdle /\ ThrIdle

\* a call of the throttled function
ThrCall(args) ==
  /\ Len(thrCalls) < MaxCalls
  /\ thrCalls' = Append(thrCalls, [at |-> now, args |-> args])
  /\ IF thrOpen(inThrottle)
       THEN /\ thrInvoked' = Append(thrInvoked,
                 [at |-> now, args |-> args, call |-> Len(thrCalls) + 1])
            /\ inThrottle' = TRUE
            /\ thrTimers' = thrTimers \cup {[id |-> Len(thrCalls) + 1, due |-> now + LIMIT]}
            /\ UNCHANGED thrDropped
       ELSE /\ thrDropped' = thrDropped + 1
            /\ UNCHANGED <<thrInvoked, inThrottle, thrTimers>>
  /\ UNCHANGED <<now, ticks, pageVars, fileVars, copyVars, debVars>>

\* the timer's callback: inThrottle = false
ThrRelease(t) ==
  /\ t \in thrTimers /\ t.due <= now
  /\ thrTimers' = thrTimers \ {t}
  /\ inThrottle' = FALSE
  /\ UNCHANGED <<thrCalls, thrInvoked, thrDropped>>
  /\ UNCHANGED <<now, ticks, pageVars, fileVars, copyVars, debVars>>

\* the clock advances by d, not beyond a due timer
ThrTick(d) ==
  /\ ticks < MaxTicks
  /\ d > 0
  /\ \A t \in thrTimers : t.due >= now + d
  /\ now' = now + d
  /\ ticks' = ticks + 1
  /\ UNCHANGED <<pageVars, fileVars, copyVars, debVars, thrVars>>

ThrNext ==
  \/ \E args \in CallArgs : ThrCall(args)
  \/ \E t \in thrTimers : ThrRelease(t)
  \/ \E d \in ThrDelays \cup {t.due - now : t \in thrTimers} : ThrTick(d)

ThrSpec == ThrInit /\ [][ThrNext]_vars

\* C18: the first call invokes func at once; two invocations are never less
\* than the limit apart; func is invoked by calls only, each call either
\* invoking it at once with its own arguments or never.
C18_Throttle ==
  /\ [](thrCalls # <<>> =>
          (thrInvoked # <<>> /\ thrInvoked[1].call = 1 /\ thrInvoked[1].at = thrCalls[1].at))
  /\ [](\A i, j \in DOMAIN thrInvoked :
          i < j => thrInvoked[j].at - thrInvoked[i].at >= 200)
  /\ [](\A i \in DOMAIN thrInvoked :
          /\ thrInvoked[i].at = thrCalls[thrInvoked[i].call].at
          /\ thrInvoked[i].args = thrCalls[thrInvoked[i].call].args)
  /\ [](Len(thrInvoked) + thrDropped = Len(thrCalls))
  /\ [][thrCalls' = thrCalls => thrInvoked' = thrInvoked]_vars
  /\ [][thrInvoked' # thrInvoked =>
          (Len(thrInvoked') = Len(thrInvoked) + 1 /\ thrDropped' = thrDropped)]_vars

\* a call inside the window was dropped; the window has closed and a later
\* call, not the dropped one, was the next to invoke func
C18_Witness ==
  /\ Len(thrCalls) = 3 /\ thrDropped = 1 /\ Len(thrInvoked) = 2
  /\ thrCalls[2].args = "b" /\ thrCalls[2].at = thrCalls[1].at + 100
  /\ thrInvoked[2].call = 3 /\ thrInvoked[2].args = "a"

====
